---- MODULE Spec2Model ----
(***************************************************************************)
(* Model of the Express server of this repository (server.js, config.js). *)
(*                                                                         *)
(* Two aspects of the program are modelled over one set of variables:      *)
(*   - the process lifecycle: the listening server, its connections, the   *)
(*     SIGINT/SIGTERM handler `shutdown`, the close callback and the       *)
(*     10 s watchdog timer (Spec, FairSpec);                               *)
(*   - the middleware chain applied to one request: body parsing, CORS,    *)
(*     the /api rate limiter, the routes, the 404 middleware and the       *)
(*     terminal error handler (HttpSpec, LimitSpec).                       *)
(* Times are in milliseconds.                                              *)
(***************************************************************************)
EXTENDS Integers, Sequences, FiniteSets, TLC

VARIABLES
  env,            \* config.env
  corsOrigins,    \* config.corsOrigins: sequence of origins (sequences of characters)
  trustProxy,     \* config.trustProxy
  handle,         \* server._handle is set: the listener accepts connections
  conns,          \* per connection slot: "none", "idle", "active", "closing"
  outcome,        \* per connection slot, its latest request: "none", "pending",
                  \* "draining" (in flight when a signal came), "responded",
                  \* "drained" (responded after the signal), "clientAbort"
  closeListeners, \* once('close') listeners registered by server.close(cb): the err each passes to cb
  timers,         \* deadlines of the pending watchdog timers
  shutdownLog,    \* the "Graceful shutdown start" log lines: signal and time
  exit,           \* <<>> while the process runs, <<[code, at]>> after process.exit
  now,            \* the clock
  store,          \* the rate limiter's memory store: per client key, hits and resetTime
  last            \* <<>> or <<[req, res]>>: the latest request handled and its response

vars == <<env, corsOrigins, trustProxy, handle, conns, outcome, closeListeners,
          timers, shutdownLog, exit, now, store, last>>

configVars == <<env, corsOrigins, trustProxy>>
lifeVars == <<handle, conns, outcome, closeListeners, timers, shutdownLog, exit>>
httpVars == <<store, last>>

----------------------------------------------------------------------------
\* Bounds of the model

MaxConns == 2
MaxSignals == 2
MaxEnvLen == 3
MaxNow == 10000
ShutdownTick == 5000
WindowTick == 300000
MaxWindowNow == 900000
MaxHits == 102
MaxHttpHits == 2

Conns == 1..MaxConns
Signals == {"SIGINT", "SIGTERM"}
IPs == {"ip1", "ip2"}

MinOf(S) == CHOOSE x \in S : \A y \in S : x <= y

----------------------------------------------------------------------------
\* config.js

EnvAlphabet == {"a", ",", " "}

\* the values CORS_ORIGINS can take: unset, or a string of at most MaxEnvLen characters
OriginEnvValues ==
  {[set |-> FALSE, val |-> <<>>]} \cup
  {[set |-> TRUE, val |-> s] : s \in UNION {[1..n -> EnvAlphabet] : n \in 0..MaxEnvLen}}

RECURSIVE split(_, _)
\* s.split(","): cur is the piece being read
split(s, cur) ==
  IF s = <<>> THEN <<cur>>
  ELSE IF Head(s) = "," THEN <<cur>> \o split(Tail(s), <<>>)
  ELSE split(Tail(s), Append(cur, Head(s)))

RECURSIVE trimStart(_)
trimStart(s) == IF s # <<>> /\ Head(s) = " " THEN trimStart(Tail(s)) ELSE s

RECURSIVE trimEnd(_)
trimEnd(s) ==
  IF s # <<>> /\ s[Len(s)] = " " THEN trimEnd(SubSeq(s, 1, Len(s) - 1)) ELSE s

trim(s) == trimEnd(trimStart(s))

parseOrigins(v) ==
  IF ~v.set \/ v.val = <<>> THEN <<>>
  ELSE LET parts == split(v.val, <<>>)
           trimmed == [i \in 1..Len(parts) |-> trim(parts[i])]
       IN SelectSeq(trimmed, LAMBDA p : p # <<>>)

Envs == {"production", "development", "test"}

\* the configuration of the image: NODE_ENV=production, nothing else set
DefaultConfig ==
  /\ env = "production"
  /\ corsOrigins = parseOrigins([set |-> FALSE, val |-> <<>>])
  /\ trustProxy = FALSE

\* any configuration
ConfigInit ==
  /\ env \in Envs
  /\ corsOrigins \in {parseOrigins(v) : v \in OriginEnvValues}
  /\ trustProxy \in BOOLEAN

----------------------------------------------------------------------------
\* Process lifecycle: server.listen, connections, shutdown

WatchdogMs == 10000

exited == exit # <<>>

\* the callback given to server.close: exit 1 on an error, else exit 0
closeCallback(err) == IF err THEN 1 ELSE 0

\* http.Server.close: idle connections are destroyed, active ones are left alone
\* (faulty variant: destroys the active connections too)
closeAllConnections(cs) ==
  [c \in Conns |-> IF cs[c] \in {"idle", "active"} THEN "closing" ELSE cs[c]]
closeIdleConnections(cs) ==
  [c \in Conns |-> IF cs[c] = "idle" THEN "closing" ELSE cs[c]]

\* net.Server._emitCloseIfDrained: 'close' is emitted once the handle is gone
\* and no connection is left
\* (faulty variant: does not wait for the connections)
drainedIgnoringConnections(h, cs) == ~h
drained(h, cs) == ~h /\ \A c \in Conns : cs[c] = "none"

\* setTimeout(..., 10_000): one more timer; earlier ones stay armed
\* (faulty variants: a new signal replaces the timer; no timer is set)
rearmWatchdog(ts, t) == {t + WatchdogMs}
noWatchdog(ts, t) == ts
armWatchdog(ts, t) == ts \cup {t + WatchdogMs}

\* the 'close' event runs the listeners in registration order; the first one
\* calls process.exit, so no later listener runs
emitClose(ls, t) == <<[code |-> closeCallback(Head(ls)), at |-> t]>>

LifeInit ==
  /\ handle = TRUE
  /\ conns = [c \in Conns |-> "none"]
  /\ outcome = [c \in Conns |-> "none"]
  /\ closeListeners = <<>>
  /\ timers = {}
  /\ shutdownLog = <<>>
  /\ exit = <<>>
  /\ now = 0

\* a client connects; only a listening server accepts
Accept(c) ==
  /\ ~exited
  /\ handle
  /\ conns[c] = "none"
  /\ conns' = [conns EXCEPT ![c] = "idle"]
  /\ outcome' = [outcome EXCEPT ![c] = "none"]
  /\ UNCHANGED <<configVars, handle, closeListeners, timers, shutdownLog, exit, now, httpVars>>

\* a request arrives on an open connection
BeginRequest(c) ==
  /\ ~exited
  /\ conns[c] = "idle"
  /\ conns' = [conns EXCEPT ![c] = "active"]
  /\ outcome' = [outcome EXCEPT ![c] = "pending"]
  /\ UNCHANGED <<configVars, handle, closeListeners, timers, shutdownLog, exit, now, httpVars>>

\* the response of the request in flight is finished; the connection is kept
\* alive or ended
FinishRequest(c, keepAlive) ==
  /\ ~exited
  /\ conns[c] = "active"
  /\ conns' = [conns EXCEPT ![c] = IF keepAlive THEN "idle" ELSE "closing"]
  /\ outcome' = [outcome EXCEPT ![c] = IF @ = "draining" THEN "drained" ELSE "responded"]
  /\ UNCHANGED <<configVars, handle, closeListeners, timers, shutdownLog, exit, now, httpVars>>

\* the client ends the connection (or the keep-alive timeout does)
ClientDisconnect(c) ==
  /\ ~exited
  /\ conns[c] \in {"idle", "active"}
  /\ conns' = [conns EXCEPT ![c] = "closing"]
  /\ outcome' = [outcome EXCEPT ![c] = IF conns[c] = "active" THEN "clientAbort" ELSE @]
  /\ UNCHANGED <<configVars, handle, closeListeners, timers, shutdownLog, exit, now, httpVars>>

\* the socket's 'close' event: the connection is gone, and the server emits
\* 'close' if that was the last one of a closed server
SocketClosed(c) ==
  /\ ~exited
  /\ conns[c] = "closing"
  /\ conns' = [conns EXCEPT ![c] = "none"]
  /\ exit' = IF drained(handle, conns') /\ closeListeners # <<>>
             THEN emitClose(closeListeners, now) ELSE exit
  /\ UNCHANGED <<configVars, handle, outcome, closeListeners, timers, shutdownLog, now, httpVars>>

\* process.on("SIGINT" | "SIGTERM"): shutdown(signal)
Shutdown(sig) ==
  /\ ~exited
  /\ Len(shutdownLog) < MaxSignals
  /\ shutdownLog' = Append(shutdownLog, [signal |-> sig, at |-> now])
  /\ closeListeners' = Append(closeListeners, ~handle)
  /\ handle' = FALSE
  /\ conns' = closeIdleConnections(conns)
  /\ timers' = armWatchdog(timers, now)
  /\ outcome' = [c \in Conns |-> IF outcome[c] = "pending" THEN "draining" ELSE outcome[c]]
  /\ exit' = IF drained(handle', conns') THEN emitClose(closeListeners', now) ELSE exit
  /\ UNCHANGED <<configVars, now, httpVars>>

\* the watchdog's callback
WatchdogFire ==
  /\ ~exited
  /\ \E t \in timers : t <= now
  /\ exit' = <<[code |-> 1, at |-> now]>>
  /\ UNCHANGED <<configVars, handle, conns, outcome, closeListeners, timers, shutdownLog, now, httpVars>>

\* time passes, but not beyond a timer that is due
Tick ==
  /\ ~exited
  /\ \A t \in timers : now < t
  /\ timers = {} => now + ShutdownTick <= MaxNow
  /\ now' = IF timers # {} /\ MinOf(timers) < now + ShutdownTick
            THEN MinOf(timers) ELSE now + ShutdownTick
  /\ UNCHANGED <<configVars, lifeVars, httpVars>>

----------------------------------------------------------------------------
\* The middleware chain of server.js, in the order it is registered

Methods == {"GET", "HEAD", "POST", "OPTIONS"}

\* paths as their segments: "/" is <<>>, "/api/hello" is <<"api", "hello">>
Paths == {<<>>, <<"livez">>, <<"readyz">>, <<"api", "hello">>, <<"nonexistent">>}

NoOrigin == [has |-> FALSE, val |-> <<>>]
Origin(v) == [has |-> TRUE, val |-> v]
\* no Origin header, an empty one, one the allow-list may hold, one it never holds
Origins == {NoOrigin, Origin(<<>>), Origin(<<"a">>), Origin(<<"e">>)}

\* express.json({ limit: "1mb" }), express.urlencoded({ limit: "1mb" })
LimitBytes == 1024 * 1024

NoBody == [ctype |-> "none", size |-> 0, valid |-> TRUE]
Body(t, n, v) == [ctype |-> t, size |-> n, valid |-> v]
Bodies ==
  { NoBody,
    Body("json", LimitBytes, TRUE),
    Body("json", LimitBytes + 1, TRUE),
    Body("json", 2, FALSE),
    Body("urlencoded", LimitBytes + 1, TRUE),
    Body("text", LimitBytes + 1, TRUE) }

Request(m, p, o, b, a, x) ==
  [method |-> m, path |-> p, origin |-> o, body |-> b, addr |-> a, xff |-> x]

NoError == [raised |-> FALSE, status |-> 0, message |-> ""]
\* status 0 stands for an error object without a status property
Error(st, msg) == [raised |-> TRUE, status |-> st, message |-> msg]

\* body-parser reads a body of the parser's content type: more than the limit
\* is a 413 error, and JSON that does not parse is a 400 error
jsonParser(req) ==
  IF req.body.ctype # "json" THEN NoError
  ELSE IF req.body.size > LimitBytes THEN Error(413, "request entity too large")
  ELSE IF req.body.size > 0 /\ ~req.body.valid THEN Error(400, "Unexpected token in JSON")
  ELSE NoError

urlencodedParser(req) ==
  IF req.body.ctype # "urlencoded" THEN NoError
  ELSE IF req.body.size > LimitBytes THEN Error(413, "request entity too large")
  ELSE NoError

includes(list, v) == \E i \in 1..Len(list) : list[i] = v

\* corsOptions.origin: !origin || corsOrigins.includes(origin)
\* (faulty variant: a request without Origin is not allowed)
originAllowedMembersOnly(origin) == origin.has /\ includes(corsOrigins, origin.val)
originAllowed(origin) ==
  \/ ~origin.has
  \/ origin.val = <<>>
  \/ includes(corsOrigins, origin.val)

\* cors(corsOptions): with an allow-list the origin callback decides, without
\* one every origin passes
corsError(req) ==
  IF Len(corsOrigins) # 0 /\ ~originAllowed(req.origin)
  THEN Error(0, "Not allowed by CORS")
  ELSE NoError

\* app.set("trust proxy", 1): req.ip is the last X-Forwarded-For entry when the
\* proxy is trusted, else the socket's address
clientIp(req) ==
  IF trustProxy /\ req.xff # <<>> THEN req.xff[Len(req.xff)] ELSE req.addr

\* app.use("/api", apiLimiter)
\* (faulty variant: the limiter mounted on every path)
everyPath(path) == TRUE
underApi(path) == path # <<>> /\ path[1] = "api"

windowMs == 10 * 60 * 1000
max == 100

\* the memory store's increment: a new window starts once the old one is over
increment(client, t) ==
  IF client.resetTime <= t
  THEN [hits |-> 1, resetTime |-> t + windowMs]
  ELSE [hits |-> client.hits + 1, resetTime |-> client.resetTime]

\* the limiter refuses a request whose count exceeds max
\* (faulty variant: refuses the max-th request already)
limitReachedAtMax(hits) == hits >= max
limitExceeded(hits) == hits > max

Payload(k, o, m) == [kind |-> k, ok |-> o, msg |-> m]
Text(m) == Payload("text", FALSE, m)
Json(o, m) == Payload("json", o, m)
NoPayload == Payload("none", FALSE, "")

Response(st, pl, stage, h, used, err) ==
  [status |-> st, payload |-> pl, stage |-> stage, handler |-> h, used |-> used, err |-> err]

\* app.get(...): Express answers HEAD with the GET route
\* (faulty variant: GET only)
getOnly(method) == method = "GET"
matchesGet(method) == method \in {"GET", "HEAD"}

\* the four routes, then the 404 middleware
routes(req, used) ==
  IF matchesGet(req.method) /\ req.path = <<"livez">>
  THEN Response(200, Text("OK"), "route", "livez", used, NoError)
  ELSE IF matchesGet(req.method) /\ req.path = <<"readyz">>
  THEN Response(200, Text("READY"), "route", "readyz", used, NoError)
  ELSE IF matchesGet(req.method) /\ req.path = <<"api", "hello">>
  THEN Response(200, Json(TRUE, "Hello from Express (prod-ready)!"), "route", "hello", used, NoError)
  ELSE IF matchesGet(req.method) /\ req.path = <<>>
  THEN Response(200, Json(TRUE, "prod-express-server"), "route", "root", used, NoError)
  ELSE Response(404, Json(FALSE, "Not Found"), "notFound", "notFound", used, NoError)

\* err.status || 500
\* (faulty variant: the error's status is ignored)
errorStatusAlways500(err) == 500
errorStatus(err) == IF err.status # 0 THEN err.status ELSE 500

errorMessage(err) == IF env = "production" THEN "Internal Server Error" ELSE err.message

\* the terminal error handler
errorHandler(err, stage) ==
  Response(errorStatus(err), Json(FALSE, errorMessage(err)), stage, "none", 0, err)

\* the response of the chain to req, given the hits the limiter counted for it
\* (0 when the request did not reach the limiter)
respond(req, used) ==
  IF jsonParser(req).raised THEN errorHandler(jsonParser(req), "json")
  ELSE IF urlencodedParser(req).raised THEN errorHandler(urlencodedParser(req), "urlencoded")
  ELSE IF corsError(req).raised THEN errorHandler(corsError(req), "cors")
  ELSE IF req.method = "OPTIONS" THEN Response(204, NoPayload, "preflight", "none", 0, NoError)
  ELSE IF underApi(req.path) /\ limitExceeded(used)
  THEN Response(429, Text("Too many requests, please try again later."), "limiter", "none", used, NoError)
  ELSE routes(req, used)

\* whether the chain takes req as far as the rate limiter
reachesLimiter(req) ==
  /\ ~jsonParser(req).raised
  /\ ~urlencodedParser(req).raised
  /\ ~corsError(req).raised
  /\ req.method # "OPTIONS"
  /\ underApi(req.path)

TotalHits == store["ip1"].hits + store["ip2"].hits

\* one request through the chain: the limiter's store is updated and the
\* response recorded
HandleRequest(req, budget) ==
  /\ ~exited
  /\ handle
  /\ LET key == clientIp(req)
         counted == reachesLimiter(req)
         client == IF counted THEN increment(store[key], now) ELSE store[key]
     IN /\ counted => TotalHits < budget
        /\ store' = [store EXCEPT ![key] = client]
        /\ last' = <<[req |-> req, res |-> respond(req, IF counted THEN client.hits ELSE 0)]>>
  /\ UNCHANGED <<configVars, lifeVars, now>>

\* time passes by one step of the limiter's clock
WindowTickStep ==
  /\ ~exited
  /\ now + WindowTick <= MaxWindowNow
  /\ now' = now + WindowTick
  /\ UNCHANGED <<configVars, lifeVars, httpVars>>

\* the requests the chain is exercised with: every method, path and Origin
\* without a body, and bodies of every kind on two routes
HttpRequests ==
  {Request(m, p, o, NoBody, "ip1", <<>>) : m \in Methods, p \in Paths, o \in Origins}
  \cup {Request(m, p, o, b, "ip1", <<>>) :
          m \in {"GET", "POST"}, p \in {<<"livez">>, <<"api", "hello">>},
          o \in {NoOrigin, Origin(<<"e">>)}, b \in Bodies}
  \cup {Request("GET", <<"api", "hello">>, NoOrigin, NoBody, a, <<"ip2">>) : a \in IPs}

\* the requests the limiter is exercised with: counted ones, ones outside
\* /api, and a preflight to /api that CORS answers before the limiter
LimitRequests ==
  {Request("GET", p, NoOrigin, NoBody, a, <<>>) :
     p \in {<<"api", "hello">>, <<"livez">>}, a \in IPs}
  \cup {Request("OPTIONS", <<"api", "hello">>, NoOrigin, NoBody, "ip1", <<>>)}

----------------------------------------------------------------------------
\* Specifications

StoreInit ==
  /\ store = [k \in IPs |-> [hits |-> 0, resetTime |-> 0]]
  /\ last = <<>>

Init == DefaultConfig /\ LifeInit /\ StoreInit

\* the process lifecycle
Next ==
  \/ \E c \in Conns : Accept(c)
  \/ \E c \in Conns : BeginRequest(c)
  \/ \E c \in Conns, keepAlive \in BOOLEAN : FinishRequest(c, keepAlive)
  \/ \E c \in Conns : ClientDisconnect(c)
  \/ \E c \in Conns : SocketClosed(c)
  \/ \E sig \in Signals : Shutdown(sig)
  \/ WatchdogFire
  \/ Tick

Spec == Init /\ [][Next]_vars

\* the event loop runs a due timer and the clock does not stop
FairSpec == Spec /\ WF_vars(Tick) /\ WF_vars(WatchdogFire)

\* the middleware chain on single requests
HttpNext == \E req \in HttpRequests : HandleRequest(req, MaxHttpHits)

HttpInit == ConfigInit /\ LifeInit /\ StoreInit

HttpSpec == HttpInit /\ [][HttpNext]_vars

\* the rate limiter over its windows
LimitNext ==
  \/ \E req \in LimitRequests : HandleRequest(req, MaxHits)
  \/ WindowTickStep

LimitSpec == Init /\ [][LimitNext]_vars

----------------------------------------------------------------------------
\* Properties of the shutdown path

ShutdownStarted == shutdownLog # <<>>
Deadline == shutdownLog[1].at + WatchdogMs
InFlight(c) == outcome[c] \in {"pending", "draining"}
Drained == ~handle /\ \A c \in Conns : conns[c] = "none"

\* C1: the process exits with code 0 only when no request is still in flight,
\* the listener is closed and every connection is gone.
C1_ExitZeroOnlyAfterDrain ==
  (exited /\ exit[1].code = 0) =>
    /\ ShutdownStarted
    /\ ~handle
    /\ \A c \in Conns : ~InFlight(c) /\ conns[c] = "none"

\* a request that was in flight when the signal came was answered, and the
\* process then exited with code 0, later than the signal
C1_Witness ==
  /\ exited
  /\ exit[1].code = 0
  /\ exit[1].at > shutdownLog[1].at
  /\ \E c \in Conns : outcome[c] = "drained"

\* C2: once shutdown has started the process eventually exits; and an exit
\* that finds the drain unfinished is the watchdog's, with code 1 at the
\* deadline, 10 s after the first signal.
C2_WatchdogForcesExit ==
  /\ ShutdownStarted ~> exited
  /\ [](exited /\ ~Drained => exit[1].code = 1 /\ exit[1].at = Deadline)

\* a request in flight at the signal never finished and the process exited
\* with code 1
C2_Witness ==
  /\ exited
  /\ exit[1].code = 1
  /\ \E c \in Conns : outcome[c] = "draining" /\ conns[c] = "active"

\* C3: once the listener is closed no connection is opened; a request in
\* flight ends only by its response or by the client, never by shutdown; and
\* the process exits under a request in flight only by the watchdog, at the
\* deadline or later.
C3_DrainKeepsInFlight ==
  [][/\ ~handle => ~handle' /\ \A c \in Conns : conns[c] = "none" => conns'[c] = "none"
     /\ \A c \in Conns :
          conns[c] = "active" =>
            \/ conns'[c] = "active" /\ InFlight(c)'
            \/ outcome'[c] \in {"responded", "drained", "clientAbort"}
     /\ \A c \in Conns :
          (conns[c] = "active" /\ ~exited /\ exited') =>
            /\ ShutdownStarted
            /\ exit'[1].code = 1
            /\ exit'[1].at >= Deadline]_vars

\* a request in flight at the signal was answered while the server drained,
\* and another connection is still being served
C3_Witness ==
  /\ ~exited
  /\ ~handle
  /\ \E c, d \in Conns : outcome[c] = "drained" /\ conns[d] = "active"

\* C10: the process exits no later than 10 s after the first signal, whatever
\* signals follow; its code is 0 exactly when the drain completed without an
\* error, else 1; and while it runs after a signal the deadline has not passed.
C10_ExitCodeAndDeadline ==
  /\ exited =>
       /\ ShutdownStarted
       /\ Len(exit) = 1
       /\ exit[1].code \in {0, 1}
       /\ exit[1].at <= Deadline
       /\ exit[1].code = 0 <=> (Drained /\ ~Head(closeListeners))
  /\ (ShutdownStarted /\ ~exited) => now <= Deadline

\* a second signal arrived while the first drain was in progress, and the
\* drain still ended in exit code 0
C10_Witness ==
  /\ exited
  /\ exit[1].code = 0
  /\ Len(shutdownLog) = 2
  /\ shutdownLog[2].at > shutdownLog[1].at
  /\ exit[1].at > shutdownLog[2].at

----------------------------------------------------------------------------
\* Properties of the middleware chain

Handled == last # <<>>
Req == last[1].req
Res == last[1].res

IsApiPath(path) == Len(path) >= 1 /\ path[1] = "api"
IsWired(path) == path \in {<<"livez">>, <<"readyz">>, <<"api", "hello">>, <<>>}
PassedOn == Res.stage \in {"route", "notFound"}
ReachedCors == Res.stage \notin {"json", "urlencoded"}
NotFoundBody == [kind |-> "json", ok |-> FALSE, msg |-> "Not Found"]

C5_ClientErrorsAre4xxJson ==
  (Handled /\ Res.stage \in {"json", "urlencoded", "cors", "limiter"}) =>
    /\ Res.status \in 400..499
    /\ Res.payload.kind = "json"
    /\ Res.payload.ok = FALSE
    /\ Res.payload.msg # ""

\* C6 as stated: with an allow-list, CORS lets a request through exactly when
\* it has no Origin header or its Origin is on the list, and a rejected
\* request reaches no handler; without an allow-list CORS rejects nothing.
C6_Original ==
  (Handled /\ ReachedCors) =>
    IF Len(corsOrigins) # 0
    THEN /\ Res.stage # "cors" <=>
              (~Req.origin.has \/ \E i \in 1..Len(corsOrigins) : corsOrigins[i] = Req.origin.val)
         /\ Res.stage = "cors" => Res.handler = "none"
    ELSE Res.stage # "cors"

\* C6 amended: as stated, with an empty Origin header treated like a missing one.
C6_CorsDecision ==
  (Handled /\ ReachedCors) =>
    IF Len(corsOrigins) # 0
    THEN /\ Res.stage # "cors" <=>
              \/ ~Req.origin.has
              \/ Req.origin.val = <<>>
              \/ \E i \in 1..Len(corsOrigins) : corsOrigins[i] = Req.origin.val
         /\ Res.stage = "cors" => Res.handler = "none" /\ Res.status = 500
    ELSE Res.stage # "cors"

\* an Origin outside the configured allow-list is rejected
C6_Witness ==
  /\ Handled
  /\ Len(corsOrigins) # 0
  /\ Req.origin = [has |-> TRUE, val |-> <<"e">>]
  /\ Res.stage = "cors"
  /\ Res.handler = "none"

\* C7 as stated: past the earlier middleware, GET /livez and GET /readyz are
\* answered 200, and everything but a GET of a wired path is answered 404
\* with the Not Found body.
C7_Original ==
  (Handled /\ PassedOn) =>
    /\ (Req.method = "GET" /\ Req.path \in {<<"livez">>, <<"readyz">>}) => Res.status = 200
    /\ ~(Req.method = "GET" /\ IsWired(Req.path)) =>
         Res.status = 404 /\ Res.payload = NotFoundBody

\* C7 amended: a HEAD of a wired path is answered like its GET, with 200.
C7_RoutingStrictness ==
  (Handled /\ PassedOn) =>
    /\ (Req.method \in {"GET", "HEAD"} /\ IsWired(Req.path)) => Res.status = 200
    /\ ~(Req.method \in {"GET", "HEAD"} /\ IsWired(Req.path)) =>
         Res.status = 404 /\ Res.payload = NotFoundBody

\* a POST to a wired path is answered 404
C7_Witness ==
  /\ Handled
  /\ Req.method = "POST"
  /\ Req.path = <<"livez">>
  /\ Res.status = 404
  /\ Res.payload = NotFoundBody

\* C8: an error of the chain is answered with its own status, or 500 when it
\* has none, and with the fixed message in production and its own message
\* elsewhere; no handler runs, and nothing but that request is affected.
C8_ErrorHandler ==
  /\ [](Handled =>
          /\ Res.err.raised <=> Res.stage \in {"json", "urlencoded", "cors"}
          /\ Res.err.raised =>
               /\ Res.status = (IF Res.err.status # 0 THEN Res.err.status ELSE 500)
               /\ Res.payload.kind = "json"
               /\ Res.payload.ok = FALSE
               /\ Res.payload.msg = (IF env = "production" THEN "Internal Server Error"
                                     ELSE Res.err.message)
               /\ Res.handler = "none"
          /\ (Req.body.ctype = "json" /\ Req.body.size > 1048576) => Res.status = 413)
  /\ [][(last' # <<>> /\ last'[1].res.err.raised) =>
          /\ store' = store
          /\ exit' = exit
          /\ handle' = handle
          /\ conns' = conns
          /\ outcome' = outcome]_vars

\* an oversized JSON body is answered 413 with the fixed message in production
C8_Witness ==
  /\ Handled
  /\ env = "production"
  /\ Res.err.raised
  /\ Res.err.status = 413
  /\ Res.status = 413
  /\ Res.payload.msg = "Internal Server Error"

\* C9: the limiter's count of a client changes only with a request of that
\* client to a path under /api; a request to any other path is never counted
\* and never answered 429.
C9_LimiterFrame ==
  /\ [](Handled /\ ~IsApiPath(Req.path) => Res.status # 429 /\ Res.used = 0)
  /\ [][\A k \in IPs :
          store'[k] # store[k] =>
            /\ last' # <<>>
            /\ IsApiPath(last'[1].req.path)
            /\ clientIp(last'[1].req) = k]_vars

\* a client over its limit is still answered 200 on /livez, while the other
\* client's count is untouched
C9_Witness ==
  /\ Handled
  /\ Req.path = <<"livez">>
  /\ Res.status = 200
  /\ store[Req.addr].hits > 100
  /\ \E k \in IPs : k # Req.addr /\ store[k].hits = 0

====
